---- MODULE Spec2Model ----
(***************************************************************************)
(* Model of src/basket.js: the basketball tournament simulation.           *)
(*                                                                         *)
(* Team objects live in a heap, `team`, keyed by the team's name (names    *)
(* are unique over all rosters); every list of the program (results,       *)
(* hats, quarterFinals, semiFinals, finals) holds references, that is      *)
(* names.  Math.random() is a nondeterministic choice.                     *)
(***************************************************************************)
EXTENDS Integers, Sequences, FiniteSets, TLC

VARIABLES
    pc,                 \* position in simulateTournament
    team,               \* heap of Team objects: name -> fields
    exhibitions,        \* this.exhibitions: team -> its entry of exibitions.json
    teamForms,          \* this.teamForms: name -> cumulative difference
    groupStageMatches,  \* this.groupStageMatches: name -> set of names
    groupResults,       \* simulateGroupStages.groupResults: group -> standings
    g,                  \* index of the group simulateGroupStages is at
    results,            \* playGroupStage.results
    i,                  \* playGroupStage: outer loop index (1-based)
    j,                  \* playGroupStage: inner loop index (1-based)
    matchLog,           \* the group-stage matches displayMatchResult has printed
    rankedTeams,        \* simulateTournament.rankedTeams
    hats,               \* drawKnockoutStage.hats
    quarterFinals,      \* drawKnockoutStage.quarterFinals, then the bracket
    usedTeams,          \* drawKnockoutStage.usedTeams
    semiFinals,         \* simulateKnockoutStage.semiFinals
    finals,             \* simulateKnockoutStage.finals
    matchNo,            \* simulateKnockoutStage: index of the quarterfinal forEach is at
    printedSemiFinals,  \* the semifinalists printed under "Semi-finals:"
    lastMatch,          \* the knockout match displayMatchResult printed last, or <<>>
    shootout,           \* that match's simulatePenaltyShootout result, or <<>>
    knockoutResults     \* this.knockoutResults: {champion, runnerUp}

vars == <<pc, team, exhibitions, teamForms, groupStageMatches, groupResults, g, results, i, j,
          matchLog, rankedTeams, hats, quarterFinals, usedTeams, semiFinals, finals,
          matchNo, printedSemiFinals, lastMatch, shootout, knockoutResults>>

groupVars == <<groupResults, g, results, i, j>>
drawVars == <<rankedTeams, hats, quarterFinals, usedTeams>>
knockoutVars == <<semiFinals, finals, matchNo, printedSemiFinals, lastMatch, shootout,
                  knockoutResults>>

(***************************************************************************)
(* Bounds of the model and constants of the program.                       *)
(***************************************************************************)
\* Scores a match can end with: 0..MaxScore (the Poisson draw is unbounded).
MaxScore == 1
\* Number of groups the eight ranked teams can come from.
NumGroups == 5
\* The same, where the draw's endless behaviours are searched.
LoopGroups == 3

WIN_POINTS == 2
LOSS_POINTS == 1
TEAM_RANK_LIMIT == 8
\* simulatePenaltyShootout: Math.floor(Math.random() * 5)
PenaltyRange == 5
\* calculateExpectedPoints: basePoints, and 1 / rankingDifferenceFactor
BasePoints == 80
FactorInverse == 10

EmptyMap == [n \in {} |-> 0]

\* Keep the entries of f and add those of h for keys f lacks.
Merge(f, h) == [n \in (DOMAIN f) \cup (DOMAIN h) |-> IF n \in DOMAIN f THEN f[n] ELSE h[n]]

Range(s) == {s[k] : k \in DOMAIN s}

(***************************************************************************)
(* class Team                                                              *)
(***************************************************************************)
NewTeam(name, ranking) ==
    [name |-> name, ranking |-> ranking, wins |-> 0, losses |-> 0, points |-> 0,
     scored |-> 0, conceded |-> 0]

updateScores(t, scored, conceded) ==
    [t EXCEPT !.scored = @ + scored, !.conceded = @ + conceded]

\* updatePoints without its else branch: every call counts a win.
updatePointsWinOnly(t, points) ==
    [t EXCEPT !.points = @ + points, !.wins = @ + 1]

updatePoints(t, points) ==
    IF points = WIN_POINTS
    THEN [t EXCEPT !.points = @ + points, !.wins = @ + 1]
    ELSE [t EXCEPT !.points = @ + points, !.losses = @ + 1]

goalDifference(t) == t.scored - t.conceded

(***************************************************************************)
(* The rosters of groups.json (an input; these are the model's rosters).   *)
(***************************************************************************)
GroupOrder == <<"A", "B", "C", "D", "E", "F">>

Roster(name) ==
    IF name = "A"
    THEN << [Team |-> "a1", FIBARanking |-> 4] >>
    ELSE IF name = "B"
    THEN << [Team |-> "b1", FIBARanking |-> 7] >>
    ELSE IF name = "C"
    THEN << [Team |-> "c1", FIBARanking |-> 9] >>
    ELSE IF name = "D"
    THEN << [Team |-> "d1", FIBARanking |-> 18] >>
    ELSE IF name = "E"
    THEN << [Team |-> "e1", FIBARanking |-> 15],
            [Team |-> "e2", FIBARanking |-> 25] >>
    ELSE << [Team |-> "f1", FIBARanking |-> 1],
            [Team |-> "f2", FIBARanking |-> 12],
            [Team |-> "f3", FIBARanking |-> 30] >>

RosterNames(name) == [k \in DOMAIN Roster(name) |-> Roster(name)[k].Team]

(***************************************************************************)
(* Scores                                                                  *)
(***************************************************************************)
\* calculateExpectedPoints, in tenths of a point (the factor is 0.1).
calculateExpectedPoints(teamRanking, opponentRanking) ==
    BasePoints * FactorInverse + (opponentRanking - teamRanking)

\* generatePoissonScore: with lambda <= 0, L >= 1 and the first draw (< 1) ends the
\* loop with k = 1, so the score is 0; with lambda > 0 every score is possible.
generatePoissonScore(lambdaTenths) ==
    IF lambdaTenths <= 0 THEN {0} ELSE 0..MaxScore

\* simulateGamePoisson: the set of [score1, score2] it can return.
simulateGamePoisson(ranking1, ranking2, form1, form2) ==
    LET lambda1 == calculateExpectedPoints(ranking1, ranking2) + form1 * FactorInverse
        lambda2 == calculateExpectedPoints(ranking2, ranking1) + form2 * FactorInverse
    IN  generatePoissonScore(lambda1) \X generatePoissonScore(lambda2)

(***************************************************************************)
(* Standings                                                               *)
(***************************************************************************)
\* The comparator without its last key, `b.scored - a.scored`.
CompareTeamsTwoKeys(a, b) ==
    IF b.points - a.points # 0 THEN b.points - a.points
    ELSE goalDifference(b) - goalDifference(a)

\* The comparator of sortTeamsByPerformance and rankTeamsForKnockout:
\* negative when a goes before b.
CompareTeams(a, b) ==
    IF b.points - a.points # 0 THEN b.points - a.points
    ELSE IF goalDifference(b) - goalDifference(a) # 0
         THEN goalDifference(b) - goalDifference(a)
         ELSE b.scored - a.scored

\* Array.prototype.sort is stable: an element goes before the first element that
\* the comparator puts after it, and after every element it ties with.
RECURSIVE InsertSorted(_, _, _)
InsertSorted(h, s, x) ==
    IF s = <<>> THEN <<x>>
    ELSE IF CompareTeams(h[Head(s)], h[x]) > 0
         THEN <<x>> \o s
         ELSE <<Head(s)>> \o InsertSorted(h, Tail(s), x)

RECURSIVE SortFrom(_, _, _)
SortFrom(h, acc, rest) ==
    IF rest = <<>> THEN acc
    ELSE SortFrom(h, InsertSorted(h, acc, Head(rest)), Tail(rest))

sortTeamsByPerformance(h, s) == SortFrom(h, <<>>, s)

\* updateMatchResults with `else` for `else if (score2 > score1)`.
updateMatchResultsElse(h, n1, n2, score1, score2) ==
    LET t1 == updateScores(h[n1], score1, score2)
        t2 == updateScores(h[n2], score2, score1)
    IN  IF score1 > score2
        THEN [h EXCEPT ![n1] = updatePoints(t1, WIN_POINTS),
                       ![n2] = updatePoints(t2, LOSS_POINTS)]
        ELSE [h EXCEPT ![n2] = updatePoints(t2, WIN_POINTS),
                       ![n1] = updatePoints(t1, LOSS_POINTS)]

\* updateMatchResults on the heap h, for the objects named n1 and n2.
updateMatchResults(h, n1, n2, score1, score2) ==
    LET t1 == updateScores(h[n1], score1, score2)
        t2 == updateScores(h[n2], score2, score1)
    IN  IF score1 > score2
        THEN [h EXCEPT ![n1] = updatePoints(t1, WIN_POINTS),
                       ![n2] = updatePoints(t2, LOSS_POINTS)]
        ELSE IF score2 > score1
             THEN [h EXCEPT ![n2] = updatePoints(t2, WIN_POINTS),
                            ![n1] = updatePoints(t1, LOSS_POINTS)]
             ELSE [h EXCEPT ![n1] = t1, ![n2] = t2]

\* recordGroupStageMatch without `this.groupStageMatches[team2].add(team1)`.
recordGroupStageMatchOneWay(m, team1, team2) ==
    LET withKeys == Merge(m, [n \in {team1, team2} |-> {}])
    IN  [n \in DOMAIN withKeys |->
            IF n = team1 THEN withKeys[n] \cup {team2} ELSE withKeys[n]]

\* recordGroupStageMatch: a missing key is created as an empty Set first.
recordGroupStageMatch(m, team1, team2) ==
    LET withKeys == Merge(m, [n \in {team1, team2} |-> {}])
    IN  [n \in DOMAIN withKeys |->
            IF n = team1 /\ n = team2 THEN withKeys[n] \cup {team1, team2}
            ELSE IF n = team1 THEN withKeys[n] \cup {team2}
            ELSE IF n = team2 THEN withKeys[n] \cup {team1}
            ELSE withKeys[n]]

(***************************************************************************)
(* Exhibitions and form                                                    *)
(***************************************************************************)
\* A string is a sequence of one-character strings; an entry of exibitions.json is
\* [isArray, matches]: Array.isArray of the value and, for an array, its matches,
\* each [Opponent, Result].
Digits == <<"0", "1", "2", "3", "4", "5", "6", "7", "8", "9">>

\* Number(str) for a string of digits; Number("") is 0.
RECURSIVE Number(_)
Number(str) ==
    IF str = <<>> THEN 0
    ELSE 10 * Number(SubSeq(str, 1, Len(str) - 1))
         + (CHOOSE d \in 0..9 : Digits[d + 1] = str[Len(str)])

\* str.split('-')
RECURSIVE split(_)
split(str) ==
    IF \A k \in DOMAIN str : str[k] # "-" THEN <<str>>
    ELSE LET k == CHOOSE k \in DOMAIN str : str[k] = "-" /\ \A l \in 1..(k - 1) : str[l] # "-"
         IN  <<SubSeq(str, 1, k - 1)>> \o split(SubSeq(str, k + 1, Len(str)))

\* Lines 69-70: the difference of one match.
matchDifference(match) ==
    LET parts == split(match.Result)
    IN  Number(parts[1]) - Number(parts[2])

\* Lines 65-72: the cumulative difference of a team's matches.
RECURSIVE cumulativeDifference(_)
cumulativeDifference(matches) ==
    IF matches = <<>> THEN 0
    ELSE cumulativeDifference(SubSeq(matches, 1, Len(matches) - 1))
         + matchDifference(matches[Len(matches)])

\* calculateCumulativeForm: a team whose entry is no array is skipped and gets no key.
calculateCumulativeForm(ex) ==
    [t \in {u \in DOMAIN ex : ex[u].isArray} |-> cumulativeDifference(ex[t].matches)]

Match(opponent, result) == [Opponent |-> opponent, Result |-> result]

ArrayEntry(matches) == [isArray |-> TRUE, matches |-> matches]

\* An entry that is no array (an object, a string, a number, null).
NonArrayEntry == [isArray |-> FALSE, matches |-> <<>>]

(***************************************************************************)
(* simulateGroupStages / playGroupStage                                    *)
(***************************************************************************)
NoDraw ==
    /\ hats = EmptyMap
    /\ quarterFinals = <<>>
    /\ usedTeams = {}

NoKnockout ==
    /\ semiFinals = <<>>
    /\ finals = <<>>
    /\ matchNo = 1
    /\ printedSemiFinals = <<>>
    /\ lastMatch = <<>>
    /\ shootout = <<>>
    /\ knockoutResults = EmptyMap

\* The state after `new Tournament(teamsMap)`, at the start of simulateGroupStages.
GroupInit ==
    /\ pc = "groups"
    /\ team = EmptyMap
    /\ exhibitions = EmptyMap
    /\ teamForms = EmptyMap
    /\ groupStageMatches = EmptyMap
    /\ groupResults = EmptyMap
    /\ g = 1
    /\ results = <<>>
    /\ i = 1
    /\ j = 2
    /\ matchLog = <<>>
    /\ rankedTeams = <<>>
    /\ NoDraw
    /\ NoKnockout

\* Lines 106-107 and 117: the next group's Team objects are created.
EnterGroup ==
    /\ pc = "groups"
    /\ g <= Len(GroupOrder)
    /\ LET roster == Roster(GroupOrder[g])
       IN  /\ team' = Merge([n \in Range(RosterNames(GroupOrder[g])) |->
                               LET k == CHOOSE k \in DOMAIN roster : roster[k].Team = n
                               IN  NewTeam(n, roster[k].FIBARanking)], team)
           /\ results' = RosterNames(GroupOrder[g])
    /\ i' = 1
    /\ j' = 2
    /\ pc' = "play"
    /\ UNCHANGED <<exhibitions, teamForms, groupStageMatches, groupResults, g, matchLog>>
    /\ UNCHANGED <<drawVars, knockoutVars>>

\* Where the nested loops of playGroupStage stand after the pair (a, b).
NextPair(a, b, n) == IF b + 1 <= n THEN <<a, b + 1>> ELSE <<a + 1, a + 2>>

\* Lines 121-127: one pass of the inner loop.
PlayMatch ==
    /\ pc = "play"
    /\ i <= Len(results)
    /\ j <= Len(results)
    /\ LET team1 == results[i]
           team2 == results[j]
       IN  \E score \in simulateGamePoisson(team[team1].ranking, team[team2].ranking, 0, 0) :
              /\ matchLog' = Append(matchLog, <<team1, team2, score[1], score[2]>>)
              /\ team' = updateMatchResults(team, team1, team2, score[1], score[2])
              /\ groupStageMatches' = recordGroupStageMatch(groupStageMatches, team1, team2)
    /\ i' = NextPair(i, j, Len(results))[1]
    /\ j' = NextPair(i, j, Len(results))[2]
    /\ UNCHANGED <<pc, exhibitions, teamForms, groupResults, g, results>>
    /\ UNCHANGED <<drawVars, knockoutVars>>

\* Lines 131 and 109: the loops are over; the sorted results are the group's standings.
LeaveGroup ==
    /\ pc = "play"
    /\ ~(i <= Len(results) /\ j <= Len(results))
    /\ results' = sortTeamsByPerformance(team, results)
    /\ groupResults' = Merge([n \in {GroupOrder[g]} |-> results'], groupResults)
    /\ g' = g + 1
    /\ pc' = "groups"
    /\ UNCHANGED <<team, exhibitions, teamForms, groupStageMatches, i, j, matchLog>>
    /\ UNCHANGED <<drawVars, knockoutVars>>

GroupNext == EnterGroup \/ PlayMatch \/ LeaveGroup

\* Object.values(groupResults).flat(): the standings, in the groups' order.
RECURSIVE flatResults(_, _)
flatResults(gr, order) ==
    IF order = <<>> THEN <<>>
    ELSE (IF Head(order) \in DOMAIN gr THEN gr[Head(order)] ELSE <<>>)
         \o flatResults(gr, Tail(order))

slice(s, n) == SubSeq(s, 1, IF Len(s) < n THEN Len(s) ELSE n)

\* rankTeamsForKnockout without the sort.
rankTeamsUnsorted(h, gr) == slice(flatResults(gr, GroupOrder), TEAM_RANK_LIMIT)

\* rankTeamsForKnockout: the same comparator and sort as sortTeamsByPerformance.
rankTeamsForKnockout(h, gr) ==
    slice(sortTeamsByPerformance(h, flatResults(gr, GroupOrder)), TEAM_RANK_LIMIT)

GroupSpec == GroupInit /\ [][GroupNext]_vars

\* Line 85: every group is played; the teams are ranked for the knockout.
RankTeams ==
    /\ pc = "groups"
    /\ g > Len(GroupOrder)
    /\ rankedTeams' = rankTeamsForKnockout(team, groupResults)
    /\ pc' = "draw"
    /\ UNCHANGED <<team, exhibitions, teamForms, groupStageMatches, matchLog, hats,
                   quarterFinals, usedTeams>>
    /\ UNCHANGED <<groupVars, knockoutVars>>

\* The contents exibitions.json can have for the rosters: matches for some of the
\* teams, two of them far behind in theirs, and the same with one team's entry
\* not an array.
ExhibitionArrays ==
    [n \in {"a1", "c1", "d1", "e2", "f1"} |->
        IF n = "f1" THEN ArrayEntry(<<Match("b1", <<"9", "0", "-", "8", "1">>),
                                     Match("c1", <<"7", "7", "-", "8", "0">>)>>)
        ELSE IF n = "e2" THEN ArrayEntry(<<>>)
        ELSE IF n = "c1" THEN ArrayEntry(<<Match("f1", <<"8", "0", "-", "7", "7">>)>>)
        ELSE IF n = "a1" THEN ArrayEntry(<<Match("b1", <<"5", "0", "-", "9", "5">>),
                                          Match("f2", <<"6", "0", "-", "1", "0", "5">>)>>)
        ELSE ArrayEntry(<<Match("e1", <<"4", "8", "-", "1", "3", "0">>)>>)]

ExhibitionChoices ==
    {ExhibitionArrays, [ExhibitionArrays EXCEPT !["e2"] = NonArrayEntry]}

\* The state after `new Tournament(teamsMap)`, when simulateTournament is called.
TournamentInit ==
    /\ pc = "friendly"
    /\ team = EmptyMap
    /\ exhibitions \in ExhibitionChoices
    /\ teamForms = calculateCumulativeForm(exhibitions)
    /\ groupStageMatches = EmptyMap
    /\ groupResults = EmptyMap
    /\ g = 1
    /\ results = <<>>
    /\ i = 1
    /\ j = 2
    /\ matchLog = <<>>
    /\ rankedTeams = <<>>
    /\ NoDraw
    /\ NoKnockout

\* Lines 81-82, displayFriendlyMatches: matches.forEach is called on every entry,
\* and throws a TypeError, which nothing catches, on one that is no array.
DisplayFriendlyMatches ==
    /\ pc = "friendly"
    /\ pc' = IF \A t \in DOMAIN exhibitions : exhibitions[t].isArray
             THEN "groups" ELSE "crashed"
    /\ UNCHANGED <<team, exhibitions, teamForms, groupStageMatches, matchLog>>
    /\ UNCHANGED <<groupVars, drawVars, knockoutVars>>

(***************************************************************************)
(* drawKnockoutStage                                                       *)
(***************************************************************************)
\* The eight teams of the knockout, in rank order, with their FIBA rankings.
Top8 == <<"t1", "t2", "t3", "t4", "t5", "t6", "t7", "t8">>

Top8Ranking(k) == 3 * k - 2

\* A team's record after a group stage in which the teams of Top8 drew 0:0 with
\* each other and each beat the WinsInGroup other teams of its group (none of which
\* reaches the knockout) by 9 - k to 0: the rank order is that of Top8.
WinsInGroup == 5

RankedTeam(k) ==
    [name |-> Top8[k], ranking |-> Top8Ranking(k), wins |-> WinsInGroup, losses |-> 0,
     points |-> WinsInGroup * WIN_POINTS, scored |-> WinsInGroup * (9 - k), conceded |-> 0]

RankedHeap == [n \in Range(Top8) |-> RankedTeam(CHOOSE k \in DOMAIN Top8 : Top8[k] = n)]

\* groupStageMatches among the ranked teams when team n played in group f[n]:
\* a team with no opponent among them has no key.
MatchesOfGroups(f) ==
    [n \in {t \in DOMAIN f : \E u \in DOMAIN f : u # t /\ f[u] = f[t]} |->
        {u \in DOMAIN f : u # n /\ f[u] = f[n]}]

\* isMatchAlreadyPlayed: this.groupStageMatches[team1.name]?.has(team2.name)
isMatchAlreadyPlayed(m, team1, team2) ==
    team1 \in DOMAIN m /\ team2 \in m[team1]

Null == "null"

\* findOpponent without the test of the group stage's record.
findOpponentAnyPlayed(m, hat, used, t) ==
    LET free == {k \in DOMAIN hat : hat[k] \notin used}
    IN  IF free = {} THEN Null
        ELSE hat[CHOOSE k \in free : \A l \in free : k <= l]

\* findOpponent returning the last team of the hat that is neither played nor used.
findOpponentLast(m, hat, used, t) ==
    LET free == {k \in DOMAIN hat : ~isMatchAlreadyPlayed(m, t, hat[k]) /\ hat[k] \notin used}
    IN  IF free = {} THEN Null
        ELSE hat[CHOOSE k \in free : \A l \in free : k >= l]

\* findOpponent: the first team of the hat that is neither played nor used.
findOpponent(m, hat, used, t) ==
    LET free == {k \in DOMAIN hat : ~isMatchAlreadyPlayed(m, t, hat[k]) /\ hat[k] \notin used}
    IN  IF free = {} THEN Null
        ELSE hat[CHOOSE k \in free : \A l \in free : k <= l]

\* One for-loop of tryPairing: the teams of `from`, in order, against the hat `to`;
\* st is [qf |-> quarterFinals, used |-> usedTeams].
RECURSIVE pairHats(_, _, _, _)
pairHats(m, from, to, st) ==
    IF from = <<>> THEN st
    ELSE LET team1 == Head(from)
             opponent == findOpponent(m, to, st.used, team1)
         IN  IF opponent # Null
             THEN pairHats(m, Tail(from), to,
                           [qf |-> Append(st.qf, <<team1, opponent>>),
                            used |-> st.used \cup {team1, opponent}])
             ELSE pairHats(m, Tail(from), to, st)

\* tryPairing with the two loops interleaved: a team of hats.D, then one of hats.E.
tryPairingInterleaved(m, h, qf, used) ==
    pairHats(m, <<h.E[2]>>, h.F,
        pairHats(m, <<h.D[2]>>, h.G,
            pairHats(m, <<h.E[1]>>, h.F,
                pairHats(m, <<h.D[1]>>, h.G, [qf |-> qf, used |-> used]))))

\* tryPairing: hats.D against hats.G, then hats.E against hats.F.
tryPairing(m, h, qf, used) ==
    pairHats(m, h.E, h.F, pairHats(m, h.D, h.G, [qf |-> qf, used |-> used]))

\* reorderTeams without `hats[hat].push(firstTeam)`.
reorderTeamsShiftOnly(hat) == Tail(hat)

\* reorderTeams: shift() then push().
reorderTeams(hat) == Append(Tail(hat), Head(hat))

\* The state when drawKnockoutStage is called: the ranked teams, and the group
\* stage's record among them, for every way they can have shared n groups.
DrawInitOf(n) ==
    /\ pc = "draw"
    /\ team = RankedHeap
    /\ exhibitions = EmptyMap
    /\ teamForms = EmptyMap
    /\ \E f \in [Range(Top8) -> 1..n] : groupStageMatches = MatchesOfGroups(f)
    /\ groupResults = EmptyMap
    /\ g = 1
    /\ results = <<>>
    /\ i = 1
    /\ j = 2
    /\ matchLog = <<>>
    /\ rankedTeams = Top8
    /\ NoDraw
    /\ NoKnockout

DrawInit == DrawInitOf(NumGroups)

\* Lines 207-215.
DrawEnter ==
    /\ pc = "draw"
    /\ hats' = [D |-> <<rankedTeams[1], rankedTeams[2]>>,
                E |-> <<rankedTeams[3], rankedTeams[4]>>,
                F |-> <<rankedTeams[5], rankedTeams[6]>>,
                G |-> <<rankedTeams[7], rankedTeams[8]>>]
    /\ quarterFinals' = <<>>
    /\ usedTeams' = {}
    /\ pc' = "tryPairing"
    /\ UNCHANGED <<team, exhibitions, teamForms, groupStageMatches, matchLog, rankedTeams>>
    /\ UNCHANGED <<groupVars, knockoutVars>>

\* Line 263: the call of tryPairing in the loop's condition.
TryPairing ==
    /\ pc = "tryPairing"
    /\ LET st == tryPairing(groupStageMatches, hats, quarterFinals, usedTeams)
       IN  /\ quarterFinals' = st.qf
           /\ usedTeams' = st.used
    /\ pc' = "loopTest"
    /\ UNCHANGED <<team, exhibitions, teamForms, groupStageMatches, matchLog, rankedTeams, hats>>
    /\ UNCHANGED <<groupVars, knockoutVars>>

\* The loop's body without `quarterFinals.length = 0`.
RetryKeepingPairs ==
    /\ pc = "loopTest"
    /\ Len(quarterFinals) # 4
    /\ usedTeams' = {}
    /\ hats' = [hats EXCEPT !.G = reorderTeams(@), !.F = reorderTeams(@)]
    /\ pc' = "tryPairing"
    /\ UNCHANGED <<team, exhibitions, teamForms, groupStageMatches, matchLog, rankedTeams, quarterFinals>>
    /\ UNCHANGED <<groupVars, knockoutVars>>

\* The loop's body without `reorderTeams('F')`.
RetryReorderingG ==
    /\ pc = "loopTest"
    /\ Len(quarterFinals) # 4
    /\ quarterFinals' = <<>>
    /\ usedTeams' = {}
    /\ hats' = [hats EXCEPT !.G = reorderTeams(@)]
    /\ pc' = "tryPairing"
    /\ UNCHANGED <<team, exhibitions, teamForms, groupStageMatches, matchLog, rankedTeams>>
    /\ UNCHANGED <<groupVars, knockoutVars>>

\* Lines 265-270: tryPairing returned false; the loop's body.
Retry ==
    /\ pc = "loopTest"
    /\ Len(quarterFinals) # 4
    /\ quarterFinals' = <<>>
    /\ usedTeams' = {}
    /\ hats' = [hats EXCEPT !.G = reorderTeams(@), !.F = reorderTeams(@)]
    /\ pc' = "tryPairing"
    /\ UNCHANGED <<team, exhibitions, teamForms, groupStageMatches, matchLog, rankedTeams>>
    /\ UNCHANGED <<groupVars, knockoutVars>>

\* Lines 274-280: tryPairing returned true; drawKnockoutStage returns quarterFinals.
DrawReturn ==
    /\ pc = "loopTest"
    /\ Len(quarterFinals) = 4
    /\ pc' = "quarterFinals"
    /\ UNCHANGED <<team, exhibitions, teamForms, groupStageMatches, matchLog>>
    /\ UNCHANGED <<groupVars, drawVars, knockoutVars>>

DrawNext == DrawEnter \/ TryPairing \/ Retry \/ DrawReturn

DrawSpec == DrawInit /\ [][DrawNext]_vars

\* Lines 81-86: simulateTournament up to the return of drawKnockoutStage.
SeedingNext == DisplayFriendlyMatches \/ GroupNext \/ RankTeams \/ DrawNext

SeedingSpec == TournamentInit /\ [][SeedingNext]_vars

\* The program runs on: a step that can be taken is taken.
FairDrawSpec == DrawInitOf(LoopGroups) /\ [][DrawNext]_vars /\ WF_vars(DrawNext)

(***************************************************************************)
(* simulateKnockoutStage                                                   *)
(***************************************************************************)
\* this.teamForms[name] as an argument of simulateGamePoisson: a missing entry is
\* undefined, for which the parameter's default, 0, is taken.
formOf(forms, name) == IF name \in DOMAIN forms THEN forms[name] ELSE 0

\* simulatePenaltyShootout: the set of [team1Score, team2Score] it can return.
simulatePenaltyShootout == (0..(PenaltyRange - 1)) \X (0..(PenaltyRange - 1))

\* The scores a knockout match between the two teams can end with.
knockoutScores(h, forms, team1, team2) ==
    simulateGamePoisson(h[team1].ranking, h[team2].ranking,
                        formOf(forms, team1), formOf(forms, team2))

\* Lines 310-312 and 336-338: the shootout is run only when the scores are equal.
penaltiesAfter(score) == IF score[1] = score[2] THEN simulatePenaltyShootout ELSE {<<>>}

\* Lines 307-322 and 333-348: the team pushed to the next round. pen is the
\* shootout's result, read only when the scores are equal.
advancingTeam(team1, team2, score, pen) ==
    LET winner == IF score[1] > score[2] THEN team1 ELSE team2
    IN  IF score[1] = score[2]
        THEN IF pen[1] > pen[2] THEN team1 ELSE team2
        ELSE winner

\* Lines 356-357.
champion(finalist1, finalist2, score) == IF score[1] > score[2] THEN finalist1 ELSE finalist2

runnerUp(finalist1, finalist2, score) == IF score[1] < score[2] THEN finalist1 ELSE finalist2

\* A bracket that is re-seeded: the first semifinalist meets the last one.
spliceOuterTwo(s) ==
    [removed |-> <<s[1], s[Len(s)]>>, rest |-> SubSeq(s, 2, Len(s) - 1)]

\* semiFinals.splice(0, 2): the two teams removed, and what is left of the array.
spliceFirstTwo(s) ==
    [removed |-> SubSeq(s, 1, 2), rest |-> SubSeq(s, 3, Len(s))]

\* The brackets drawKnockoutStage can return for Top8.
Brackets ==
    {<< <<Top8[1], Top8[pg[1]]>>, <<Top8[2], Top8[pg[2]]>>,
        <<Top8[3], Top8[pf[1]]>>, <<Top8[4], Top8[pf[2]]>> >> :
        pg \in {<<7, 8>>, <<8, 7>>}, pf \in {<<5, 6>>, <<6, 5>>}}

\* The cumulative forms calculateCumulativeForm can leave: no exhibition data, or
\* some teams with a form, one of them far below zero.
FormChoices ==
    {EmptyMap, [n \in {"t1", "t4", "t6", "t7"} |->
                   IF n = "t1" THEN 3 ELSE IF n = "t4" THEN -2
                   ELSE IF n = "t6" THEN 0 ELSE -90]}

\* Exhibition data that leaves the forms of FormChoices.
KnockoutExhibitions ==
    {EmptyMap,
     [n \in {"t1", "t4", "t6", "t7"} |->
        IF n = "t1" THEN ArrayEntry(<<Match("t2", <<"8", "3", "-", "8", "0">>)>>)
        ELSE IF n = "t4" THEN ArrayEntry(<<Match("t3", <<"7", "8", "-", "8", "0">>)>>)
        ELSE IF n = "t6" THEN ArrayEntry(<<Match("t5", <<"7", "5", "-", "7", "5">>)>>)
        ELSE ArrayEntry(<<Match("t8", <<"5", "0", "-", "9", "5">>),
                          Match("t1", <<"6", "0", "-", "1", "0", "5">>)>>)]}

\* Groups with which every bracket of Brackets is a draw: the first and third
\* hats played in one group, the second and fourth in another.
KnockoutGroups == [n \in Range(Top8) |-> IF n \in {"t1", "t2", "t5", "t6"} THEN 1 ELSE 2]

\* The state when simulateKnockoutStage is called with a drawn bracket.
KnockoutInit ==
    /\ pc = "quarterFinals"
    /\ team = RankedHeap
    /\ exhibitions \in KnockoutExhibitions
    /\ teamForms = calculateCumulativeForm(exhibitions)
    /\ teamForms \in FormChoices
    /\ groupStageMatches = MatchesOfGroups(KnockoutGroups)
    /\ groupResults = EmptyMap
    /\ g = 1
    /\ results = <<>>
    /\ i = 1
    /\ j = 2
    /\ matchLog = <<>>
    /\ rankedTeams = Top8
    /\ quarterFinals \in Brackets
    /\ hats = [D |-> <<quarterFinals[1][1], quarterFinals[2][1]>>,
               E |-> <<quarterFinals[3][1], quarterFinals[4][1]>>,
               F |-> <<quarterFinals[3][2], quarterFinals[4][2]>>,
               G |-> <<quarterFinals[1][2], quarterFinals[2][2]>>]
    /\ usedTeams = Range(Top8)
    /\ NoKnockout

\* A quarterfinal that is recorded like a match of the group stage.
QuarterFinalRecorded ==
    /\ pc = "quarterFinals"
    /\ matchNo <= Len(quarterFinals)
    /\ LET team1 == quarterFinals[matchNo][1]
           team2 == quarterFinals[matchNo][2]
       IN  \E score \in knockoutScores(team, teamForms, team1, team2) :
           \E pen \in penaltiesAfter(score) :
              /\ lastMatch' = [stage |-> "quarterFinals", no |-> matchNo,
                               team1 |-> team1, team2 |-> team2,
                               score1 |-> score[1], score2 |-> score[2]]
              /\ shootout' = pen
              /\ semiFinals' = Append(semiFinals, advancingTeam(team1, team2, score, pen))
              /\ team' = updateMatchResults(team, team1, team2, score[1], score[2])
              /\ groupStageMatches' = recordGroupStageMatch(groupStageMatches, team1, team2)
    /\ matchNo' = matchNo + 1
    /\ UNCHANGED <<pc, exhibitions, teamForms, matchLog, finals,
                   printedSemiFinals, knockoutResults>>
    /\ UNCHANGED <<groupVars, drawVars>>

\* Lines 303-323: one pass of quarterFinals.forEach.
QuarterFinal ==
    /\ pc = "quarterFinals"
    /\ matchNo <= Len(quarterFinals)
    /\ LET team1 == quarterFinals[matchNo][1]
           team2 == quarterFinals[matchNo][2]
       IN  \E score \in knockoutScores(team, teamForms, team1, team2) :
           \E pen \in penaltiesAfter(score) :
              /\ lastMatch' = [stage |-> "quarterFinals", no |-> matchNo,
                               team1 |-> team1, team2 |-> team2,
                               score1 |-> score[1], score2 |-> score[2]]
              /\ shootout' = pen
              /\ semiFinals' = Append(semiFinals, advancingTeam(team1, team2, score, pen))
    /\ matchNo' = matchNo + 1
    /\ UNCHANGED <<pc, team, exhibitions, teamForms, groupStageMatches, matchLog, finals,
                   printedSemiFinals, knockoutResults>>
    /\ UNCHANGED <<groupVars, drawVars>>

\* Lines 325-326: the semifinalists are printed.
PrintSemiFinals ==
    /\ pc = "quarterFinals"
    /\ matchNo > Len(quarterFinals)
    /\ printedSemiFinals' = semiFinals
    /\ pc' = "semiFinals"
    /\ UNCHANGED <<team, exhibitions, teamForms, groupStageMatches, matchLog, semiFinals, finals,
                   matchNo, lastMatch, shootout, knockoutResults>>
    /\ UNCHANGED <<groupVars, drawVars>>

\* Lines 328-349: one pass of the semifinal loop.
SemiFinal ==
    /\ pc = "semiFinals"
    /\ Len(semiFinals) > 1
    /\ LET team1 == spliceFirstTwo(semiFinals).removed[1]
           team2 == spliceFirstTwo(semiFinals).removed[2]
       IN  \E score \in knockoutScores(team, teamForms, team1, team2) :
           \E pen \in penaltiesAfter(score) :
              /\ lastMatch' = [stage |-> "semiFinals", no |-> Len(finals) + 1,
                               team1 |-> team1, team2 |-> team2,
                               score1 |-> score[1], score2 |-> score[2]]
              /\ shootout' = pen
              /\ finals' = Append(finals, advancingTeam(team1, team2, score, pen))
    /\ semiFinals' = spliceFirstTwo(semiFinals).rest
    /\ UNCHANGED <<pc, team, exhibitions, teamForms, groupStageMatches, matchLog, matchNo,
                   printedSemiFinals, knockoutResults>>
    /\ UNCHANGED <<groupVars, drawVars>>

\* Lines 351-361: the final, and the result simulateTournament stores (line 87).
Final ==
    /\ pc = "semiFinals"
    /\ ~(Len(semiFinals) > 1)
    /\ LET finalist1 == finals[1]
           finalist2 == finals[2]
       IN  \E score \in knockoutScores(team, teamForms, finalist1, finalist2) :
              /\ lastMatch' = [stage |-> "final", no |-> 1,
                               team1 |-> finalist1, team2 |-> finalist2,
                               score1 |-> score[1], score2 |-> score[2]]
              /\ knockoutResults' = [champion |-> champion(finalist1, finalist2, score),
                                     runnerUp |-> runnerUp(finalist1, finalist2, score)]
    /\ shootout' = <<>>
    /\ pc' = "done"
    /\ UNCHANGED <<team, exhibitions, teamForms, groupStageMatches, matchLog, semiFinals, finals,
                   matchNo, printedSemiFinals>>
    /\ UNCHANGED <<groupVars, drawVars>>

KnockoutNext == QuarterFinal \/ PrintSemiFinals \/ SemiFinal \/ Final

KnockoutSpec == KnockoutInit /\ [][KnockoutNext]_vars

(***************************************************************************)
(* drawKnockoutStage followed by simulateKnockoutStage                     *)
(***************************************************************************)
\* Ways the ranked teams can have shared the groups: a draw found at the first
\* attempt, one found at the second, one with two pairs of teams only, and one
\* for which the loop finds no draw.
BracketGroups ==
    {[n \in Range(Top8) |-> IF n \in {"t1", "t2", "t5", "t6"} THEN "A" ELSE "B"],
     [n \in Range(Top8) |-> IF n \in {"t2", "t8"} THEN "A"
                            ELSE IF n \in {"t3", "t5"} THEN "B"
                            ELSE IF n \in {"t1", "t4"} THEN "C"
                            ELSE IF n = "t6" THEN "D" ELSE "E"],
     [n \in Range(Top8) |-> IF n \in {"t1", "t2"} THEN "A"
                            ELSE IF n \in {"t3", "t4"} THEN "B"
                            ELSE IF n \in {"t5", "t7"} THEN "C"
                            ELSE IF n = "t6" THEN "D" ELSE "E"],
     [n \in Range(Top8) |-> IF n \in {"t1", "t3"} THEN "A"
                            ELSE IF n \in {"t2", "t4", "t5", "t8"} THEN "B" ELSE "C"]}

\* The ranked teams of group G, in rank order.
RECURSIVE RankedOfGroup(_, _, _)
RankedOfGroup(f, G, k) ==
    IF k > Len(Top8) THEN <<>>
    ELSE (IF f[Top8[k]] = G THEN <<Top8[k]>> ELSE <<>>) \o RankedOfGroup(f, G, k + 1)

\* The standings simulateGroupStages returned, as far as the ranked teams go.
StandingsOfGroups(f) == [G \in {f[n] : n \in DOMAIN f} |-> RankedOfGroup(f, G, 1)]

\* The state when drawKnockoutStage is called, with the exhibition data loaded.
BracketInit ==
    /\ pc = "draw"
    /\ team = RankedHeap
    /\ exhibitions \in KnockoutExhibitions
    /\ teamForms = calculateCumulativeForm(exhibitions)
    /\ \E f \in BracketGroups :
          /\ groupStageMatches = MatchesOfGroups(f)
          /\ groupResults = StandingsOfGroups(f)
    /\ g = 1
    /\ results = <<>>
    /\ i = 1
    /\ j = 2
    /\ matchLog = <<>>
    /\ rankedTeams = Top8
    /\ NoDraw
    /\ NoKnockout

\* Lines 86-87 of simulateTournament.
BracketNext == DrawNext \/ KnockoutNext

BracketSpec == BracketInit /\ [][BracketNext]_vars

(***************************************************************************)
(* simulateTournament                                                      *)
(***************************************************************************)
\* Lines 81-87: the friendly matches, the group stage, the ranking, the draw and
\* the knockout stage.
TournamentNext ==
    DisplayFriendlyMatches \/ GroupNext \/ RankTeams \/ DrawNext \/ KnockoutNext

TournamentSpec == TournamentInit /\ [][TournamentNext]_vars

(***************************************************************************)
(* Properties of the knockout draw                                         *)
(***************************************************************************)
\* The two teams are recorded as having played each other in the group stage.
Met(a, b) ==
    \/ a \in DOMAIN groupStageMatches /\ b \in groupStageMatches[a]
    \/ b \in DOMAIN groupStageMatches /\ a \in groupStageMatches[b]

Hat1 == {rankedTeams[1], rankedTeams[2]}
Hat2 == {rankedTeams[3], rankedTeams[4]}
Hat3 == {rankedTeams[5], rankedTeams[6]}
Hat4 == {rankedTeams[7], rankedTeams[8]}

\* The sets of 4 pairs that pair each hat1 team with a distinct hat4 team and each
\* hat2 team with a distinct hat3 team, no pair having met.
ValidAssignments ==
    {a \in {{<<rankedTeams[1], x[1]>>, <<rankedTeams[2], x[2]>>,
             <<rankedTeams[3], y[1]>>, <<rankedTeams[4], y[2]>>} :
               x \in {<<rankedTeams[7], rankedTeams[8]>>, <<rankedTeams[8], rankedTeams[7]>>},
               y \in {<<rankedTeams[5], rankedTeams[6]>>, <<rankedTeams[6], rankedTeams[5]>>}} :
        \A p \in a : ~Met(p[1], p[2])}

DrawReturned == pc = "quarterFinals"

\* The hats are no longer in rank order: an attempt has failed.
HasRetried == hats # EmptyMap /\ hats.G = <<rankedTeams[8], rankedTeams[7]>>

\* The pairs the first attempt, on the hats in rank order, builds.
FirstAttempt ==
    tryPairing(groupStageMatches,
               [D |-> <<rankedTeams[1], rankedTeams[2]>>, E |-> <<rankedTeams[3], rankedTeams[4]>>,
                F |-> <<rankedTeams[5], rankedTeams[6]>>, G |-> <<rankedTeams[7], rankedTeams[8]>>],
               <<>>, {}).qf

\* C1: whenever drawKnockoutStage returns, no returned quarterfinal pair consists
\* of two teams recorded as having played each other in the group stage.
C1_NoRepeatPairing ==
    DrawReturned =>
        \A k \in DOMAIN quarterFinals : ~Met(quarterFinals[k][1], quarterFinals[k][2])

\* The draw has returned after a failed attempt, and teams of hat1 and hat4, and of
\* hat2 and hat3, had met in the group stage.
C1_Witness ==
    /\ DrawReturned
    /\ HasRetried
    /\ \E a \in Hat1, b \in Hat4 : Met(a, b)
    /\ \E a \in Hat2, b \in Hat3 : Met(a, b)

\* C2: if a valid assignment of 4 pairs exists, the retry loop terminates and
\* returns such an assignment.
C2_ValidDrawIsFound ==
    (ValidAssignments # {}) =>
        <>(DrawReturned /\ Range(quarterFinals) \in ValidAssignments)

\* C3: when no valid assignment exists, the draw stops after a bounded number of
\* retries in a failure outcome distinct from success; it never retries forever.
C3_UnsatisfiableDrawStops ==
    (ValidAssignments = {}) =>
        <>(pc \notin {"draw", "tryPairing", "loopTest"} /\ ~(DrawReturned /\ Len(quarterFinals) = 4))

\* C4: whenever drawKnockoutStage returns, the result has exactly 4 pairs, each of
\* the 8 teams is in exactly one pair, and every pair is (hat1, hat4) or
\* (hat2, hat3); an attempt starts with no pair left of a failed one.
C4_FullBracket ==
    /\ DrawReturned =>
        /\ Len(quarterFinals) = 4
        /\ \A t \in Range(rankedTeams) :
              Cardinality({<<k, side>> \in (DOMAIN quarterFinals) \X {1, 2} :
                              quarterFinals[k][side] = t}) = 1
        /\ \A k \in DOMAIN quarterFinals :
              \/ quarterFinals[k][1] \in Hat1 /\ quarterFinals[k][2] \in Hat4
              \/ quarterFinals[k][1] \in Hat2 /\ quarterFinals[k][2] \in Hat3
    /\ pc = "tryPairing" => quarterFinals = <<>> /\ usedTeams = {}

\* The draw has returned after a first attempt that built some pairs, one of which
\* is not in the result.
C4_Witness ==
    /\ DrawReturned
    /\ HasRetried
    /\ Len(FirstAttempt) \in 1..3
    /\ \E k \in DOMAIN FirstAttempt : FirstAttempt[k] \notin Range(quarterFinals)

(***************************************************************************)
(* Properties of the knockout stage                                        *)
(***************************************************************************)
KnockoutOver == pc = "done"

\* The team the last quarterfinal or semifinal pushed to the next round.
LastAdvanced ==
    IF lastMatch.stage = "quarterFinals" THEN semiFinals[Len(semiFinals)]
    ELSE finals[Len(finals)]

\* C5: for every outcome of the final, equal scores included, the knockout ends
\* with a champion and a runner-up that are two different teams: the finalist
\* that won the final, and the other finalist.
C5_ChampionAndRunnerUp ==
    KnockoutOver =>
        /\ knockoutResults.champion # knockoutResults.runnerUp
        /\ {knockoutResults.champion, knockoutResults.runnerUp} = {finals[1], finals[2]}
        /\ lastMatch.score1 > lastMatch.score2 => knockoutResults.champion = finals[1]
        /\ lastMatch.score2 > lastMatch.score1 => knockoutResults.champion = finals[2]

\* C6: in every quarterfinal and semifinal the advancing team strictly outscored
\* its opponent, in the match when the scores differ and otherwise in a shootout;
\* a shootout with equal scores does not decide who advances.
C6_AdvancingTeamOutscored ==
    (lastMatch # <<>> /\ lastMatch.stage \in {"quarterFinals", "semiFinals"}) =>
        IF lastMatch.score1 # lastMatch.score2
        THEN LastAdvanced = (IF lastMatch.score1 > lastMatch.score2
                             THEN lastMatch.team1 ELSE lastMatch.team2)
        ELSE /\ shootout[1] # shootout[2]
             /\ LastAdvanced = (IF shootout[1] > shootout[2]
                                THEN lastMatch.team1 ELSE lastMatch.team2)

\* The score of the named team in the last match, and its opponent's.
ScoreOf(n) == IF n = lastMatch.team1 THEN lastMatch.score1 ELSE lastMatch.score2

ScoreAgainst(n) == IF n = lastMatch.team1 THEN lastMatch.score2 ELSE lastMatch.score1

\* The named team was not outscored in the last match, nor in its shootout.
NotOutscored(n) ==
    /\ ScoreOf(n) >= ScoreAgainst(n)
    /\ shootout # <<>> =>
          IF n = lastMatch.team1 THEN shootout[1] >= shootout[2]
          ELSE shootout[2] >= shootout[1]

\* C10: the bracket is played in bracket order without re-seeding: quarterfinal k
\* is between the k-th pair and sends one of its two teams on, 4 semifinalists in
\* all; semifinal 1 is between the teams sent on by quarterfinals 1 and 2,
\* semifinal 2 between those of quarterfinals 3 and 4; the final is between the
\* two teams the semifinals sent on, and the champion is one of them; the team a
\* match sends on played in it and was outscored neither in it nor in its shootout.
C10_BracketOrder ==
    /\ \A k \in DOMAIN semiFinals :
          pc = "quarterFinals" => semiFinals[k] \in Range(quarterFinals[k])
    /\ pc = "quarterFinals" => Len(semiFinals) = matchNo - 1 /\ finals = <<>>
    /\ pc \in {"semiFinals", "done"} =>
          /\ Len(printedSemiFinals) = 4
          /\ \A k \in 1..4 : printedSemiFinals[k] \in Range(quarterFinals[k])
          /\ semiFinals = SubSeq(printedSemiFinals, 2 * Len(finals) + 1, 4)
          /\ \A m \in DOMAIN finals :
                finals[m] \in {printedSemiFinals[2 * m - 1], printedSemiFinals[2 * m]}
    /\ (lastMatch # <<>> /\ lastMatch.stage = "quarterFinals") =>
          /\ <<lastMatch.team1, lastMatch.team2>> = quarterFinals[lastMatch.no]
          /\ LastAdvanced \in {lastMatch.team1, lastMatch.team2}
          /\ NotOutscored(LastAdvanced)
    /\ (lastMatch # <<>> /\ lastMatch.stage = "semiFinals") =>
          /\ lastMatch.team1 = printedSemiFinals[2 * lastMatch.no - 1]
          /\ lastMatch.team2 = printedSemiFinals[2 * lastMatch.no]
          /\ LastAdvanced \in {lastMatch.team1, lastMatch.team2}
          /\ NotOutscored(LastAdvanced)
    /\ KnockoutOver =>
          /\ Len(finals) = 2
          /\ semiFinals = <<>>
          /\ <<lastMatch.team1, lastMatch.team2>> = finals
          /\ knockoutResults.champion \in Range(finals)
          /\ NotOutscored(knockoutResults.champion)

\* The knockout is over, and the second team of a quarterfinal pair and the first
\* team of another one reached the final.
C10_Witness ==
    /\ KnockoutOver
    /\ finals[1] = quarterFinals[2][2]
    /\ finals[2] = quarterFinals[3][1]
    /\ knockoutResults.champion = finals[1]

(***************************************************************************)
(* Properties of the group stage                                           *)
(***************************************************************************)
\* C7: updateMatchResults adds s1 to team1.scored and team2.conceded and s2 to
\* team2.scored and team1.conceded; if s1 # s2 the higher scorer gains exactly 2
\* points and 1 win, the other exactly 1 point and 1 loss; if s1 = s2 the points,
\* wins and losses of both are unchanged.
C7_MatchResultsApplied ==
    [][Len(matchLog') = Len(matchLog) + 1 =>
        LET m == matchLog'[Len(matchLog')]
            n1 == m[1]
            n2 == m[2]
            s1 == m[3]
            s2 == m[4]
            hi == IF s1 > s2 THEN n1 ELSE n2
            lo == IF s1 > s2 THEN n2 ELSE n1
        IN  /\ team'[n1].scored = team[n1].scored + s1
            /\ team'[n2].conceded = team[n2].conceded + s1
            /\ team'[n2].scored = team[n2].scored + s2
            /\ team'[n1].conceded = team[n1].conceded + s2
            /\ s1 # s2 =>
                  /\ team'[hi].points = team[hi].points + 2
                  /\ team'[hi].wins = team[hi].wins + 1
                  /\ team'[hi].losses = team[hi].losses
                  /\ team'[lo].points = team[lo].points + 1
                  /\ team'[lo].losses = team[lo].losses + 1
                  /\ team'[lo].wins = team[lo].wins
            /\ s1 = s2 =>
                  \A n \in {n1, n2} :
                     /\ team'[n].points = team[n].points
                     /\ team'[n].wins = team[n].wins
                     /\ team'[n].losses = team[n].losses]_vars

\* A group has had a match its first team won, one its second team won, and a tie.
C7_Witness ==
    /\ \E k \in DOMAIN matchLog : matchLog[k][3] > matchLog[k][4]
    /\ \E k \in DOMAIN matchLog : matchLog[k][3] < matchLog[k][4]
    /\ \E k \in DOMAIN matchLog : matchLog[k][3] = matchLog[k][4]

\* The group a team is in.
GroupOf(n) == CHOOSE G \in Range(GroupOrder) : n \in Range(RosterNames(G))

\* The logged matches the team n played in.
MatchesWith(n) == {k \in DOMAIN matchLog : n \in {matchLog[k][1], matchLog[k][2]}}

\* C8: after playGroupStage on a group of n teams every unordered pair of its
\* teams has been simulated exactly once (n(n-1)/2 matches, n-1 per team), and the
\* record holds exactly those pairs in both directions; the record is symmetric,
\* pairs no team with itself and no teams of different groups.
C8_RoundRobinRecorded ==
    /\ \A G \in DOMAIN groupResults :
          LET names == Range(RosterNames(G))
              n == Cardinality(names)
              games == UNION {MatchesWith(a) : a \in names}
          IN  /\ \A a, b \in names :
                    a # b => Cardinality(MatchesWith(a) \cap MatchesWith(b)) = 1
              /\ 2 * Cardinality(games) = n * (n - 1)
              /\ \A a \in names : Cardinality(MatchesWith(a)) = n - 1
              /\ \A k \in games : matchLog[k][1] # matchLog[k][2]
              /\ \A a \in names :
                    n > 1 => a \in DOMAIN groupStageMatches
                             /\ groupStageMatches[a] = names \ {a}
    /\ \A a \in DOMAIN groupStageMatches :
          /\ a \notin groupStageMatches[a]
          /\ \A b \in groupStageMatches[a] :
                /\ b \in DOMAIN groupStageMatches
                /\ a \in groupStageMatches[b]
                /\ GroupOf(a) = GroupOf(b)

\* Every group has been played.
C8_Witness ==
    /\ DOMAIN groupResults = Range(GroupOrder)
    /\ pc = "groups"

\* The sort key of a team: points, goal difference, scored.
SortKey(n) == <<team[n].points, team[n].scored - team[n].conceded, team[n].scored>>

\* Key k1 is strictly better than key k2.
BetterKey(k1, k2) ==
    \/ k1[1] > k2[1]
    \/ k1[1] = k2[1] /\ k1[2] > k2[2]
    \/ k1[1] = k2[1] /\ k1[2] = k2[2] /\ k1[3] > k2[3]

\* The position of a team in its group's roster.
RosterIndex(G, n) == CHOOSE k \in DOMAIN Roster(G) : Roster(G)[k].Team = n

\* C9: the standings of a group are a permutation of the group's teams ordered by
\* points, then goal difference, then scored, all descending, and teams equal on
\* all three keep their roster order.
C9_StandingsSortedStable ==
    \A G \in DOMAIN groupResults :
        LET s == groupResults[G]
        IN  /\ Len(s) = Len(Roster(G))
            /\ Range(s) = Range(RosterNames(G))
            /\ \A p, q \in DOMAIN s :
                  p < q =>
                     /\ ~BetterKey(SortKey(s[q]), SortKey(s[p]))
                     /\ SortKey(s[p]) = SortKey(s[q]) =>
                           RosterIndex(G, s[p]) < RosterIndex(G, s[q])

\* A group's standings differ from its roster order, two of its teams are equal on
\* all three keys, and two are equal on points and goal difference only.
C9_Witness ==
    \E G \in DOMAIN groupResults :
        LET s == groupResults[G]
        IN  /\ s # RosterNames(G)
            /\ \E p, q \in DOMAIN s : p < q /\ SortKey(s[p]) = SortKey(s[q])
            /\ \E p, q \in DOMAIN s :
                  /\ SortKey(s[p])[1] = SortKey(s[q])[1]
                  /\ SortKey(s[p])[2] = SortKey(s[q])[2]
                  /\ SortKey(s[p])[3] > SortKey(s[q])[3]

(***************************************************************************)
(* Properties of the hats and of the retry loop                            *)
(***************************************************************************)
HatsBuilt == hats # EmptyMap

\* C11: in every state of the draw each hat holds the 2 teams it was given from the
\* ranked list; retries change only the order inside hat4 (G) and hat3 (F), and
\* hat1 (D) and hat2 (E) are never reordered.
C11_HatMembership ==
    HatsBuilt =>
        /\ hats.D = <<rankedTeams[1], rankedTeams[2]>>
        /\ hats.E = <<rankedTeams[3], rankedTeams[4]>>
        /\ Len(hats.F) = 2 /\ Range(hats.F) = Hat3
        /\ Len(hats.G) = 2 /\ Range(hats.G) = Hat4

\* An attempt is about to run on hats that two retries have reordered and that a
\* third is reordering again.
C11_Witness ==
    /\ pc = "loopTest"
    /\ Len(quarterFinals) # 4
    /\ hats.G = <<rankedTeams[8], rankedTeams[7]>>
    /\ hats.F = <<rankedTeams[6], rankedTeams[5]>>

\* The teams of hat4 the first team of hat1 has not met.
UnplayedHat4 == {b \in Hat4 : ~Met(rankedTeams[1], b)}

\* Two teams of the 8 that are in different hats.
CrossHat(a, b) == \A H \in {Hat1, Hat2, Hat3, Hat4} : ~(a \in H /\ b \in H)

\* The first team of hat1 has met every hat4 team but one, and no other two teams
\* of different hats have met.
OnlyFirstSeedConstrained ==
    /\ Cardinality(UnplayedHat4) = 1
    /\ \A a, b \in Range(rankedTeams) :
          (CrossHat(a, b) /\ Met(a, b)) => rankedTeams[1] \in {a, b} /\ Hat4 \cap {a, b} # {}

\* The teams of the sequence `hat` that pair k of the bracket could take for t: not
\* met by t, and in no earlier pair.
FreeFor(t, hat, k) ==
    {l \in DOMAIN hat : /\ ~Met(t, hat[l])
                        /\ \A e \in 1..(k - 1) : hat[l] \notin Range(quarterFinals[e])}

\* C13: if the first team of hat1 has played every hat4 team except one and no
\* other cross-hat pair has met, the draw succeeds on its first attempt with no
\* rotation and pairs hat1's first team with the unplayed hat4 team, each team of a
\* source hat, in hat order, taking the first free team of the target hat.
C13_FirstFitFirstAttempt ==
    (OnlyFirstSeedConstrained /\ HatsBuilt) =>
        /\ hats.G = <<rankedTeams[7], rankedTeams[8]>>
        /\ hats.F = <<rankedTeams[5], rankedTeams[6]>>
        /\ pc \in {"loopTest", "quarterFinals"} =>
              /\ Len(quarterFinals) = 4
              /\ quarterFinals[1][1] = rankedTeams[1]
              /\ quarterFinals[1][2] \in UnplayedHat4
              /\ \A k \in 1..4 :
                    LET source == IF k <= 2 THEN hats.D ELSE hats.E
                        target == IF k <= 2 THEN hats.G ELSE hats.F
                        free == FreeFor(quarterFinals[k][1], target, k)
                    IN  /\ quarterFinals[k][1] = source[IF k <= 2 THEN k ELSE k - 2]
                        /\ free # {}
                        /\ quarterFinals[k][2] = target[CHOOSE l \in free : \A o \in free : l <= o]

\* The draw has returned for a first seed that had met the first team of hat4.
C13_Witness ==
    /\ OnlyFirstSeedConstrained
    /\ DrawReturned
    /\ Met(rankedTeams[1], rankedTeams[7])
    /\ quarterFinals[1] = <<rankedTeams[1], rankedTeams[8]>>

InRankOrder == hats.G = <<rankedTeams[7], rankedTeams[8]>> /\ hats.F = <<rankedTeams[5], rankedTeams[6]>>

BothReversed == hats.G = <<rankedTeams[8], rankedTeams[7]>> /\ hats.F = <<rankedTeams[6], rankedTeams[5]>>

\* The pairs an attempt on the hats with G and F both reversed builds.
SecondAttempt ==
    tryPairing(groupStageMatches,
               [D |-> <<rankedTeams[1], rankedTeams[2]>>, E |-> <<rankedTeams[3], rankedTeams[4]>>,
                F |-> <<rankedTeams[6], rankedTeams[5]>>, G |-> <<rankedTeams[8], rankedTeams[7]>>],
               <<>>, {}).qf

\* C15: the retry loop only ever attempts two hat configurations, G and F in rank
\* order and G and F both reversed, and alternates between them; G reversed with F
\* in order, or the converse, is never attempted; if both attempted configurations
\* fail, the loop never ends.
C15_TwoConfigurations ==
    /\ [](HatsBuilt => InRankOrder \/ BothReversed)
    /\ [][(pc = "loopTest" /\ pc' = "tryPairing") =>
             /\ InRankOrder => BothReversed'
             /\ BothReversed => InRankOrder']_vars
    /\ []((Len(FirstAttempt) # 4 /\ Len(SecondAttempt) # 4) => ~DrawReturned)

\* Both configurations have failed and the loop is back at the first one, although
\* G in rank order with F reversed would give a valid bracket.
C15_Witness ==
    /\ pc = "tryPairing"
    /\ InRankOrder
    /\ Len(FirstAttempt) # 4
    /\ Len(SecondAttempt) # 4
    /\ ValidAssignments # {}
    /\ groupStageMatches # EmptyMap
    /\ \E a \in Hat2, b \in Hat3 : Met(a, b)

(***************************************************************************)
(* Properties of the tournament run                                        *)
(***************************************************************************)
\* The teams whose entry of exibitions.json is not an array.
NonArrayTeams == {t \in DOMAIN exhibitions : ~exhibitions[t].isArray}

\* C12: when a team's exhibition entry is not a sequence, its form computation is
\* skipped, its form is 0 wherever form is read, and the run is not aborted by
\* this: it proceeds through group stage, draw and knockout.
C12_NonArrayEntryNotFatal ==
    NonArrayTeams # {} =>
        /\ \A t \in NonArrayTeams : t \notin DOMAIN teamForms /\ formOf(teamForms, t) = 0
        /\ pc # "crashed"

\* Every team the groups have created so far.
AllTeams == UNION {Range(groupResults[G]) : G \in DOMAIN groupResults}

Min(a, b) == IF a < b THEN a ELSE b

\* C14: the draw's input is the 8 best teams of all groups under the key (points,
\* goalDifference, scored), all descending: no team left out has a strictly better
\* key than a team included; the hats are taken in rank order, hat1 = ranks 1-2,
\* hat2 = ranks 3-4, hat3 = ranks 5-6, hat4 = ranks 7-8.
C14_TopEightInRankOrder ==
    pc \in {"draw", "tryPairing", "loopTest", "quarterFinals"} =>
        /\ Len(rankedTeams) = Min(TEAM_RANK_LIMIT, Cardinality(AllTeams))
        /\ Range(rankedTeams) \subseteq AllTeams
        /\ \A p, q \in DOMAIN rankedTeams :
              p < q => /\ rankedTeams[p] # rankedTeams[q]
                       /\ ~BetterKey(SortKey(rankedTeams[q]), SortKey(rankedTeams[p]))
        /\ \A t \in Range(rankedTeams), u \in AllTeams \ Range(rankedTeams) :
              ~BetterKey(SortKey(u), SortKey(t))
        /\ HatsBuilt =>
              /\ hats.D = <<rankedTeams[1], rankedTeams[2]>>
              /\ hats.E = <<rankedTeams[3], rankedTeams[4]>>
              /\ Range(hats.F) = {rankedTeams[5], rankedTeams[6]}
              /\ Range(hats.G) = {rankedTeams[7], rankedTeams[8]}

\* The hats are built from a ranking that put a team of the last group first and
\* left out a team of an earlier group, which has the key of the team ranked 8th.
C14_Witness ==
    /\ pc = "tryPairing"
    /\ hats.G = <<rankedTeams[7], rankedTeams[8]>>
    /\ \E u \in AllTeams \ Range(rankedTeams) :
          /\ u \notin Range(RosterNames(GroupOrder[Len(GroupOrder)]))
          /\ SortKey(u) = SortKey(rankedTeams[8])
    /\ BetterKey(SortKey(rankedTeams[1]), SortKey(rankedTeams[2]))
    /\ rankedTeams[1] \in Range(RosterNames(GroupOrder[Len(GroupOrder)]))

(***************************************************************************)
(* Invariants of the statistics                                            *)
(***************************************************************************)
RECURSIVE SumOver(_, _)
SumOver(S, f) ==
    IF S = {} THEN 0
    ELSE LET x == CHOOSE x \in S : TRUE IN f[x] + SumOver(S \ {x}, f)

\* The logged matches of team n that ended with equal scores.
TiesOf(n) == {k \in MatchesWith(n) : matchLog[k][3] = matchLog[k][4]}

\* C16: in every state of the group stage every team has points = 2*wins +
\* 1*losses and wins + losses <= matches played, strictly less exactly when it had
\* tied matches; within each group the scored total equals the conceded total and
\* the wins total equals the losses total.
C16_StatisticsConsistent ==
    /\ \A n \in DOMAIN team :
          LET t == team[n]
              played == Cardinality(MatchesWith(n))
          IN  /\ t.points = 2 * t.wins + 1 * t.losses
              /\ t.wins + t.losses <= played
              /\ (t.wins + t.losses < played) <=> (TiesOf(n) # {})
    /\ \A G \in Range(GroupOrder) :
          LET names == Range(RosterNames(G)) \cap DOMAIN team
          IN  /\ SumOver(names, [n \in names |-> team[n].scored])
                 = SumOver(names, [n \in names |-> team[n].conceded])
              /\ SumOver(names, [n \in names |-> team[n].wins])
                 = SumOver(names, [n \in names |-> team[n].losses])

\* Group F is played: one team won twice, one won, lost and scored in both, and
\* the third lost one match and tied one.
C16_Witness ==
    /\ "F" \in DOMAIN groupResults
    /\ \E n \in DOMAIN team : team[n].wins = 1 /\ team[n].losses = 1 /\ TiesOf(n) = {}
    /\ \E n \in DOMAIN team : team[n].wins = 0 /\ team[n].losses = 1 /\ TiesOf(n) # {}
    /\ \E n \in DOMAIN team : team[n].wins = 1 /\ team[n].losses = 0 /\ TiesOf(n) # {}

(***************************************************************************)
(* Properties of the draw and the knockout together                        *)
(***************************************************************************)
\* drawKnockoutStage has returned its list.
BracketDrawn == pc \in {"quarterFinals", "semiFinals", "done"}

\* C17: the returned quarterfinal list holds the two hat1-vs-hat4 pairs first and
\* the two hat2-vs-hat3 pairs last, and the bracket is not re-seeded, so the final
\* is always between one team of hat1 or hat4 and one team of hat2 or hat3: the
\* two hat1 teams can meet in semifinal 1 but never in the final.
C17_FinalAcrossHalves ==
    BracketDrawn =>
        /\ Len(quarterFinals) = 4
        /\ \A k \in {1, 2} : quarterFinals[k][1] \in Hat1 /\ quarterFinals[k][2] \in Hat4
        /\ \A k \in {3, 4} : quarterFinals[k][1] \in Hat2 /\ quarterFinals[k][2] \in Hat3
        /\ Len(finals) >= 1 => finals[1] \in Hat1 \cup Hat4
        /\ Len(finals) >= 2 => finals[2] \in Hat2 \cup Hat3
        /\ (lastMatch # <<>> /\ lastMatch.stage = "semiFinals" /\ lastMatch.no = 1)
              => {lastMatch.team1, lastMatch.team2} \subseteq Hat1 \cup Hat4
        /\ (lastMatch # <<>> /\ lastMatch.stage = "final") =>
              /\ lastMatch.team1 \in Hat1 \cup Hat4
              /\ lastMatch.team2 \in Hat2 \cup Hat3
              /\ {lastMatch.team1, lastMatch.team2} # Hat1

\* The final is played after a semifinal 1 between the two hat1 teams, on a
\* bracket drawn at the second attempt.
C17_Witness ==
    /\ pc = "done"
    /\ HasRetried
    /\ {printedSemiFinals[1], printedSemiFinals[2]} = Hat1
    /\ lastMatch.stage = "final"
    /\ lastMatch.team1 \in Hat1

\* C18: the knockout draw and every knockout match (quarterfinal, semifinal, final,
\* shootout) leave every team's wins, losses, points, scored and conceded, the
\* group standings and the record of played matches unchanged.
C18_KnockoutLeavesGroupData ==
    [][(pc \in {"draw", "tryPairing", "loopTest", "quarterFinals", "semiFinals"})
          => UNCHANGED <<team, groupResults, groupStageMatches>>]_vars

\* The knockout is over, a quarterfinal pair is still not recorded as played, and
\* the champion, who won the final, has the wins of the group stage only.
C18_Witness ==
    /\ pc = "done"
    /\ ~Met(quarterFinals[1][1], quarterFinals[1][2])
    /\ lastMatch.score1 # lastMatch.score2
    /\ team[knockoutResults.champion].wins = WinsInGroup
    /\ groupStageMatches # EmptyMap
    /\ groupResults # EmptyMap

====
